---- MODULE Spec2Model ----
(***************************************************************************)
(* LiveAdvance (src/live_advance.py): the callbacks that drive the Emotiv  *)
(* Cortex profile lifecycle, and on_new_com_data, which smooths the stream *)
(* of mental commands over a 40-sample window and forwards the majority    *)
(* word to a socket at most once per 8 seconds.                            *)
(***************************************************************************)
EXTENDS Integers, Sequences, FiniteSets, TLC

VARIABLES
    profile_name,     \* self.profile_name (Undefined until start assigns it)
    profile_lists,    \* self.profile_lists
    command_history,  \* self.command_history, deque(maxlen=40)
    last_print_time,  \* self.last_print_time
    opened,           \* self.c.open() has been called
    issued,           \* the Cortex commands issued by the last handler, in order
    sentCount,        \* how often each Cortex command has been issued so far
    pending,          \* Cortex requests issued and not yet answered
    acked,            \* Cortex requests that have been answered
    raised,           \* the exception the last handler ended with ("" if none)
    clock,            \* the last reading of time.time()
    effects,          \* the file append and socket delivery of the last handler, in order
    appended,         \* every command appended to command_history, in order
    decided,          \* the latest qualifying decision, if any: clock reading and outcome
    event,            \* the event the last handler was called for
    outOfTurn,        \* some completion event arrived that answered no outstanding request
    unsolicited       \* events delivered so far that answered no outstanding request

vars == <<profile_name, profile_lists, command_history, last_print_time, opened,
          issued, sentCount, pending, acked, raised, clock, effects, appended,
          decided, event, outOfTurn, unsolicited>>

----------------------------------------------------------------------------
(* Bounds of the exploration. *)

MaxSamples == 42      \* samples with data delivered to on_new_com_data
MinClock == 8         \* first reading of the wall clock
MaxGates == 1         \* gate intervals the clock runs through
MaxUnsolicited == 2   \* events delivered that answer no outstanding request
MaxLiveSamples == 4   \* samples delivered once the 'com' stream is subscribed
MaxCalls == 3         \* calls of the public operations by a caller

(* Program constants. *)

maxlen == 40          \* deque(maxlen=40)
GateInterval == 8     \* current_time - self.last_print_time >= 8
Threshold == 20       \* majority_count >= 20

target_words == <<"drop", "right", "left", "lift", "neutral">>

Undefined == "<undefined>"   \* an attribute that has not been assigned

----------------------------------------------------------------------------
(* The sample stream: data['action'] as Cortex delivers it. *)

RawActions == {"left", "Neutral", "push"}

\* str.lower() on the labels of the stream and of the vocabulary
LowerKeepsCase(s) == s

Lower(s) ==
    CASE s = "Neutral" -> "neutral"
      [] s = "NEUTRAL" -> "neutral"
      [] s = "Left"    -> "left"
      [] s = "LEFT"    -> "left"
      [] s = "Push"    -> "push"
      [] OTHER         -> s

\* deque.append on a deque with maxlen: the oldest entry leaves once full
DequeAppendEvictsLate(h, x) == IF Len(h) >= maxlen + 1 THEN Tail(h) \o <<x>> ELSE h \o <<x>>

DequeAppend(h, x) == IF Len(h) >= maxlen THEN Tail(h) \o <<x>> ELSE h \o <<x>>

\* self.command_history.count(word)
Count(h, w) == Cardinality({i \in 1..Len(h) : h[i] = w})

\* counts = {word: self.command_history.count(word) for word in self.target_words}
Counts(h) == [w \in {target_words[i] : i \in 1..Len(target_words)} |-> Count(h, w)]

\* max(counts, key=counts.get): the dict is walked in insertion order, the
\* order of target_words, and a later key wins only with a greater count
RECURSIVE MaxKey(_, _, _)
MaxKey(counts, i, best) ==
    IF i > Len(target_words) THEN best
    ELSE MaxKey(counts, i + 1,
                IF counts[target_words[i]] > counts[best] THEN target_words[i] ELSE best)

RECURSIVE MaxKeyLast(_, _, _)
MaxKeyLast(counts, i, best) ==
    IF i > Len(target_words) THEN best
    ELSE MaxKeyLast(counts, i + 1,
                    IF counts[target_words[i]] >= counts[best] THEN target_words[i] ELSE best)

MajorityWordLastMax(counts) == MaxKeyLast(counts, 2, target_words[1])

MajorityWord(counts) == MaxKey(counts, 2, target_words[1])

\* comando.encode('utf-8')
Encode(w) == [encoding |-> "utf-8", text |-> w]

\* current_time - self.last_print_time >= 8
GateOpenAtSeven(now, last) == now - last >= GateInterval - 1

GateOpen(now, last) == now - last >= GateInterval

\* majority_count >= 20
QualifiesAtNineteen(n) == n >= Threshold - 1

QualifiesOnPlurality(n) == n >= 1

Qualifies(n) == n >= Threshold

----------------------------------------------------------------------------
(* Initial state: LiveAdvance.__init__ has run, start has not. *)

\* a call of a method of self.c
Cmd(cmd, profile, arg) == [cmd |-> cmd, profile |-> profile, arg |-> arg]

\* what a command asks for: setup_profile is told apart by its status
Kind(c) == IF c.cmd = "setup_profile" THEN c.arg[1] ELSE c.cmd

Kinds == {"set_wanted_profile", "set_wanted_headset", "open", "query_profile",
          "get_current_profile", "create", "load", "unload", "save",
          "get_mental_command_active_action", "get_mental_command_action_sensitivity",
          "set_mental_command_action_sensitivity", "sub_request", "disconnect_headset"}

Event(name, arg) == [name |-> name, arg |-> arg]

Init ==
    /\ profile_name = Undefined
    /\ profile_lists = <<>>     \* assigned at line 210 before line 211 first reads it
    /\ command_history = <<>>
    /\ last_print_time = 0
    /\ opened = FALSE
    /\ issued = <<>>
    /\ sentCount = [k \in Kinds |-> 0]
    /\ pending = {}
    /\ acked = {}
    /\ raised = ""
    /\ clock = MinClock
    /\ effects = <<>>
    /\ appended = <<>>
    /\ decided = <<>>
    /\ event = Event("__init__", <<>>)
    /\ outOfTurn = FALSE
    /\ unsolicited = 0

----------------------------------------------------------------------------
(* The smoothing and forwarding pipeline. *)

NoData == [none |-> TRUE]     \* kwargs.get('data') is None or empty

\* data.get('action', '')
DataGetAction(data) == IF "action" \in DOMAIN data THEN data.action ELSE ""

\* guardar_datos_en_csv(majority_word, path): str(datos) + '\n' appended to the file
LogEffect(w, ok) == [op |-> "log", data |-> [line |-> w, newline |-> TRUE], ok |-> ok]

\* how a delivery to the socket ends
SocketOutcomes == {"ok", "connect fails", "sendall fails"}

\* envioporsocket as it would be if it closed the socket after sendall only
envioporsocket_closes_on_return(comando, outcome) ==
    <<[call |-> "socket", ok |-> TRUE]>>
    \o (IF outcome = "connect fails"
        THEN <<[call |-> "connect", ok |-> FALSE]>>
        ELSE <<[call |-> "connect", ok |-> TRUE],
               [call |-> "sendall", ok |-> (outcome = "ok")]>>)
    \o (IF outcome = "ok" THEN <<[call |-> "close", ok |-> TRUE]>> ELSE <<>>)

\* envioporsocket(comando): the calls made on the socket, in order. The socket
\* is the context of a with statement, which closes it however the body ends;
\* an exception of connect skips sendall.
envioporsocket(comando, outcome) ==
    <<[call |-> "socket", ok |-> TRUE]>>
    \o (IF outcome = "connect fails"
        THEN <<[call |-> "connect", ok |-> FALSE]>>
        ELSE <<[call |-> "connect", ok |-> TRUE],
               [call |-> "sendall", ok |-> (outcome = "ok")]>>)
    \o <<[call |-> "close", ok |-> TRUE]>>

\* self.envioporsocket(comando_encoded): one connection, one sendall
SendEffect(w, outcome) ==
    [op |-> "send", data |-> Encode(w), ok |-> (outcome = "ok"),
     calls |-> envioporsocket(Encode(w), outcome)]

\* how the file append and the socket delivery of a decision end
IoOutcomes == {"ok", "log fails", "send fails"}

\* on_new_com_data with kwargs data and time.time() reading t
\* (each local of the handler is bound to its one value, computed once)
on_new_com_data(data, t) ==
    /\ UNCHANGED <<profile_name, profile_lists, opened, sentCount, pending, acked, outOfTurn>>
    /\ issued' = <<>>
    /\ event' = Event("new_com_data", <<>>)
    /\ IF data = NoData
       THEN /\ raised' = ""
            /\ effects' = <<>>
            /\ UNCHANGED <<command_history, last_print_time, clock, appended, decided>>
       ELSE \E command \in {Lower(DataGetAction(data))} :
            \E history \in {DequeAppend(command_history, command)} :
            \E counts \in {Counts(history)} :
            \E majority_word \in {MajorityWord(counts)} :
            \E majority_count \in {counts[majority_word]} :
                /\ command_history' = history
                /\ appended' = Append(appended, command)
                /\ clock' = t
                /\ IF GateOpen(t, last_print_time) /\ Qualifies(majority_count)
                   THEN \E io \in IoOutcomes :
                           /\ decided' = <<[at |-> t, io |-> io]>>
                           /\ IF io = "log fails"
                              THEN /\ effects' = <<LogEffect(majority_word, FALSE)>>
                                   /\ raised' = "OSError"
                                   /\ UNCHANGED last_print_time
                              ELSE IF io = "send fails"
                              THEN /\ \E outcome \in SocketOutcomes \ {"ok"} :
                                         effects' = <<LogEffect(majority_word, TRUE),
                                                      SendEffect(majority_word, outcome)>>
                                   /\ raised' = "OSError"
                                   /\ UNCHANGED last_print_time
                              ELSE /\ effects' = <<LogEffect(majority_word, TRUE),
                                                   SendEffect(majority_word, "ok")>>
                                   /\ raised' = ""
                                   /\ last_print_time' = t
                   ELSE /\ raised' = ""
                        /\ effects' = <<>>
                        /\ UNCHANGED <<last_print_time, decided>>

\* The shape of the stream that is explored: one run of a label followed by a
\* run of another (every length of either run), or two labels taking turns.
OneChange(s) == Cardinality({i \in 1..(Len(s) - 1) : s[i] # s[i + 1]}) <= 1

TakingTurns(s) == \A i \in 1..(Len(s) - 2) : s[i + 2] = s[i]

StreamShape(s) == OneChange(s) \/ TakingTurns(s)

SampleData == {[action |-> a, power |-> 1] : a \in RawActions}

\* The clock is observed one unit before and right at each multiple of the gate
\* interval after its first reading.
Readings ==
    {MinClock} \cup {MinClock + k * GateInterval - d : k \in 1..MaxGates, d \in {0, 1}}

\* Cortex delivers one 'com' sample; the handler reads the clock, which never
\* runs backwards, and the file and the socket may fail
SampleArrives ==
    \E data \in SampleData \cup {NoData} :
        /\ data # NoData =>
              /\ Len(appended) < MaxSamples
              /\ StreamShape(Append(appended, Lower(DataGetAction(data))))
        /\ \E t \in {r \in Readings : r >= clock} : on_new_com_data(data, t)
        /\ UNCHANGED unsolicited

NextPipe == SampleArrives

SpecPipe == Init /\ [][NextPipe]_vars

----------------------------------------------------------------------------
(* The profile lifecycle: start and the callbacks bound in __init__. *)

\* the requests whose completion Cortex reports by an event
Requests == Kinds \ {"set_wanted_profile", "set_wanted_headset", "sub_request",
                     "disconnect_headset"}

Completions == {"create_session_done", "query_profile_done", "load_unload_profile_done",
                "get_mc_active_action_done", "mc_action_sensitivity_done",
                "save_profile_done"}

\* isinstance(data, list)
IsList(data) == data.type = "list"

\* the requests an event reports the completion of (workflow of start, lines 59-63)
Answers(name, arg) ==
    CASE name = "create_session_done"       -> {"open"}
      [] name = "query_profile_done"        -> {"query_profile"}
      [] name = "load_unload_profile_done"  -> {"get_current_profile", "create", "load", "unload"}
      [] name = "get_mc_active_action_done" -> {"get_mental_command_active_action"}
      [] name = "mc_action_sensitivity_done" ->
            IF IsList(arg[1]) THEN {"get_mental_command_action_sensitivity"}
            ELSE {"set_mental_command_action_sensitivity"}
      [] name = "save_profile_done"         -> {"save"}
      [] OTHER                              -> {}

\* a handler called for event name(arg) issues cmds, in order, and touches
\* neither the history window nor the gate
Calls(name, arg, cmds) ==
    LET kinds == {Kind(cmds[i]) : i \in 1..Len(cmds)}
        answered == Answers(name, arg) \cap pending
    IN  /\ event' = Event(name, arg)
        /\ issued' = cmds
        /\ sentCount' = [k \in Kinds |->
                            sentCount[k] + Cardinality({i \in 1..Len(cmds) : Kind(cmds[i]) = k})]
        /\ pending' = (pending \ answered) \cup (kinds \cap Requests)
        /\ acked' = acked \cup answered
        /\ outOfTurn' = (outOfTurn \/ (name \in Completions /\ answered = {}))
        /\ effects' = <<>>
        /\ UNCHANGED <<command_history, last_print_time, clock, appended, decided>>

\* The public operations: each passes its arguments on to one call of self.c.
load_profile(name) == <<Cmd("setup_profile", name, <<"load">>)>>

unload_profile(name) == <<Cmd("setup_profile", name, <<"unload">>)>>

save_profile(name) == <<Cmd("setup_profile", name, <<"save">>)>>

subscribe_data(streams) == <<Cmd("sub_request", "", streams)>>

get_active_action(name) == <<Cmd("get_mental_command_active_action", name, <<>>)>>

get_sensitivity(name) == <<Cmd("get_mental_command_action_sensitivity", name, <<>>)>>

\* set_sensitivity as it would be if it sent the values in ascending order
RECURSIVE Insert(_, _)
Insert(sorted, v) ==
    IF sorted = <<>> THEN <<v>>
    ELSE IF v <= Head(sorted) THEN <<v>> \o sorted
    ELSE <<Head(sorted)>> \o Insert(Tail(sorted), v)

RECURSIVE Ascending(_)
Ascending(values) ==
    IF values = <<>> THEN <<>> ELSE Insert(Ascending(Tail(values)), Head(values))

set_sensitivity_sorts(name, values) ==
    <<Cmd("set_mental_command_action_sensitivity", name, Ascending(values))>>

set_sensitivity(name, values) ==
    <<Cmd("set_mental_command_action_sensitivity", name, values)>>

\* start as it would be if it did not record the name
start_forgets_name(name, headsetId) ==
    /\ UNCHANGED <<profile_lists, profile_name>>
    /\ IF name = ""
       THEN /\ raised' = "ValueError"
            /\ UNCHANGED opened
            /\ Calls("start", <<name, headsetId>>, <<>>)
       ELSE /\ opened' = TRUE
            /\ raised' = ""
            /\ Calls("start", <<name, headsetId>>,
                     <<Cmd("set_wanted_profile", name, <<>>)>>
                     \o (IF headsetId # "" THEN <<Cmd("set_wanted_headset", "", <<headsetId>>)>>
                         ELSE <<>>)
                     \o <<Cmd("open", "", <<>>)>>)

\* start as it would be if it recorded the name before validating it
start_records_before_check(name, headsetId) ==
    /\ UNCHANGED profile_lists
    /\ profile_name' = name
    /\ IF name = ""
       THEN /\ raised' = "ValueError"
            /\ UNCHANGED opened
            /\ Calls("start", <<name, headsetId>>, <<>>)
       ELSE /\ opened' = TRUE
            /\ raised' = ""
            /\ Calls("start", <<name, headsetId>>,
                     <<Cmd("set_wanted_profile", name, <<>>)>>
                     \o (IF headsetId # "" THEN <<Cmd("set_wanted_headset", "", <<headsetId>>)>>
                         ELSE <<>>)
                     \o <<Cmd("open", "", <<>>)>>)

\* start(profile_name, headsetId)
start(name, headsetId) ==
    /\ UNCHANGED profile_lists
    /\ IF name = ""
       THEN /\ raised' = "ValueError"
            /\ UNCHANGED <<profile_name, opened>>
            /\ Calls("start", <<name, headsetId>>, <<>>)
       ELSE /\ profile_name' = name
            /\ opened' = TRUE
            /\ raised' = ""
            /\ Calls("start", <<name, headsetId>>,
                     <<Cmd("set_wanted_profile", name, <<>>)>>
                     \o (IF headsetId # "" THEN <<Cmd("set_wanted_headset", "", <<headsetId>>)>>
                         ELSE <<>>)
                     \o <<Cmd("open", "", <<>>)>>)

\* the handler as it would be if it subscribed as soon as the session exists
on_create_session_subscribes ==
    /\ UNCHANGED <<profile_name, profile_lists, opened>>
    /\ raised' = ""
    /\ Calls("create_session_done", <<>>,
             <<Cmd("query_profile", "", <<>>), Cmd("sub_request", "", <<"com">>)>>)

on_create_session_done ==
    /\ UNCHANGED <<profile_name, profile_lists, opened>>
    /\ raised' = ""
    /\ Calls("create_session_done", <<>>, <<Cmd("query_profile", "", <<>>)>>)

\* self.profile_name in self.profile_lists
InList(x, list) == \E i \in 1..Len(list) : list[i] = x

\* the handler as it would be if it always created the profile
on_query_profile_always_creates(data) ==
    /\ profile_lists' = data
    /\ UNCHANGED <<profile_name, opened>>
    /\ raised' = ""
    /\ Calls("query_profile_done", <<data>>,
             <<Cmd("setup_profile", profile_name, <<"create">>)>>)

on_query_profile_done(data) ==
    /\ profile_lists' = data
    /\ UNCHANGED <<profile_name, opened>>
    /\ raised' = ""
    /\ Calls("query_profile_done", <<data>>,
             IF InList(profile_name, data)
             THEN <<Cmd("get_current_profile", "", <<>>)>>
             ELSE <<Cmd("setup_profile", profile_name, <<"create">>)>>)

\* the handler as it would be if an unload left the name in place
on_load_unload_keeps_name(isLoaded) ==
    /\ UNCHANGED <<profile_name, profile_lists, opened>>
    /\ raised' = ""
    /\ Calls("load_unload_profile_done", <<isLoaded>>,
             IF isLoaded = TRUE
             THEN <<Cmd("get_mental_command_active_action", profile_name, <<>>)>>
             ELSE <<>>)

on_load_unload_profile_done(isLoaded) ==
    /\ UNCHANGED <<profile_lists, opened>>
    /\ raised' = ""
    /\ IF isLoaded = TRUE
       THEN /\ UNCHANGED profile_name
            /\ Calls("load_unload_profile_done", <<isLoaded>>, get_active_action(profile_name))
       ELSE /\ profile_name' = ""
            /\ Calls("load_unload_profile_done", <<isLoaded>>, <<>>)

\* the handler as it would be if it only printed that the profile is saved
on_save_profile_only_prints ==
    /\ UNCHANGED <<profile_name, profile_lists, opened>>
    /\ raised' = ""
    /\ Calls("save_profile_done", <<>>, <<>>)

on_save_profile_done ==
    /\ UNCHANGED <<profile_name, profile_lists, opened>>
    /\ raised' = ""
    /\ Calls("save_profile_done", <<>>, <<Cmd("sub_request", "", <<"com">>)>>)

on_get_mc_active_action_done(data) ==
    /\ UNCHANGED <<profile_name, profile_lists, opened>>
    /\ raised' = ""
    /\ Calls("get_mc_active_action_done", <<data>>, get_sensitivity(profile_name))

new_values == <<5, 5, 7, 7>>

\* the handler as it would be if it took every payload for the write's acknowledgement
on_mc_action_sensitivity_always_saves(data) ==
    /\ UNCHANGED <<profile_name, profile_lists, opened>>
    /\ raised' = ""
    /\ Calls("mc_action_sensitivity_done", <<data>>,
             <<Cmd("setup_profile", profile_name, <<"save">>)>>)

on_mc_action_sensitivity_done(data) ==
    /\ UNCHANGED <<profile_name, profile_lists, opened>>
    /\ raised' = ""
    /\ Calls("mc_action_sensitivity_done", <<data>>,
             IF IsList(data)
             THEN set_sensitivity(profile_name, new_values)
             ELSE save_profile(profile_name))

ERR_PROFILE_ACCESS_DENIED == "cortex.ERR_PROFILE_ACCESS_DENIED"

\* the handler as it would be if it only logged the error
on_inform_error_only_logs(error_data) ==
    /\ UNCHANGED <<profile_name, profile_lists, opened>>
    /\ raised' = ""
    /\ Calls("inform_error", <<error_data>>, <<>>)

\* the handler as it would be if it disconnected on every error
on_inform_error_always_disconnects(error_data) ==
    /\ UNCHANGED <<profile_name, profile_lists, opened>>
    /\ raised' = ""
    /\ Calls("inform_error", <<error_data>>, <<Cmd("disconnect_headset", "", <<>>)>>)

on_inform_error(error_data) ==
    /\ UNCHANGED <<profile_name, profile_lists, opened>>
    /\ raised' = ""
    /\ Calls("inform_error", <<error_data>>,
             IF error_data.code = ERR_PROFILE_ACCESS_DENIED
             THEN <<Cmd("disconnect_headset", "", <<>>)>>
             ELSE <<>>)

----------------------------------------------------------------------------
(* The events Cortex delivers. The websocket is opened by start, so no event *)
(* arrives before it; after it the events arrive in any order.              *)

ProfileNames == {"", "p1"}
HeadsetIds == {"", "h1"}
Catalogs == {<<"p2">>, <<"p2", "p1">>}
ActiveActions == {<<"neutral", "left">>}
SensitivityData == {[type |-> "list", value |-> <<7, 8, 3, 6>>],
                    [type |-> "str", value |-> <<"success">>]}
ErrorData == {[code |-> ERR_PROFILE_ACCESS_DENIED, message |-> "access denied"],
              [code |-> "cortex.ERR_PROFILE_QUERIED", message |-> "other"]}

Start ==
    /\ ~opened
    /\ UNCHANGED unsolicited
    /\ \E name \in ProfileNames, headsetId \in HeadsetIds : start(name, headsetId)

\* an event that answers an outstanding request arrives in turn; the others,
\* error reports among them, are unsolicited
InTurn(name, arg) == Answers(name, arg) \cap pending # {}

Delivered(name, arg) ==
    /\ opened
    /\ IF InTurn(name, arg) THEN UNCHANGED unsolicited
       ELSE unsolicited < MaxUnsolicited /\ unsolicited' = unsolicited + 1

SessionCreated == Delivered("create_session_done", <<>>) /\ on_create_session_done

CatalogReceived ==
    \E data \in Catalogs :
        Delivered("query_profile_done", <<data>>) /\ on_query_profile_done(data)

LoadUnloadCompleted ==
    \E isLoaded \in BOOLEAN :
        Delivered("load_unload_profile_done", <<isLoaded>>)
        /\ on_load_unload_profile_done(isLoaded)

ProfileSaved == Delivered("save_profile_done", <<>>) /\ on_save_profile_done

ActiveActionsReceived ==
    \E data \in ActiveActions :
        Delivered("get_mc_active_action_done", <<data>>) /\ on_get_mc_active_action_done(data)

SensitivityReceived ==
    \E data \in SensitivityData :
        Delivered("mc_action_sensitivity_done", <<data>>)
        /\ on_mc_action_sensitivity_done(data)

InformError ==
    \E error_data \in ErrorData :
        Delivered("inform_error", <<error_data>>) /\ on_inform_error(error_data)

\* a 'com' sample that arrives while the lifecycle is still running
ComDataReceived ==
    \E data \in SampleData \cup {NoData} :
        /\ Delivered("new_com_data", <<data>>)
        /\ data # NoData =>
              /\ Len(appended) < MaxSamples
              /\ StreamShape(Append(appended, Lower(DataGetAction(data))))
        /\ on_new_com_data(data, clock)

Next ==
    \/ Start
    \/ SessionCreated
    \/ CatalogReceived
    \/ LoadUnloadCompleted
    \/ ActiveActionsReceived
    \/ SensitivityReceived
    \/ ProfileSaved
    \/ InformError
    \/ ComDataReceived

Spec == Init /\ [][Next]_vars

----------------------------------------------------------------------------
(* The lifecycle when Cortex answers every request: each completion event    *)
(* arrives in answer to an outstanding request, the profile gets loaded, no  *)
(* error is reported, and samples flow once the 'com' stream is subscribed.  *)

Answered(name, arg) ==
    /\ opened
    /\ InTurn(name, arg)
    /\ UNCHANGED unsolicited

SessionAnswered == Answered("create_session_done", <<>>) /\ on_create_session_done

CatalogAnswered ==
    \E data \in Catalogs :
        Answered("query_profile_done", <<data>>) /\ on_query_profile_done(data)

ProfileLoaded ==
    Answered("load_unload_profile_done", <<TRUE>>) /\ on_load_unload_profile_done(TRUE)

ActiveActionsAnswered ==
    \E data \in ActiveActions :
        Answered("get_mc_active_action_done", <<data>>) /\ on_get_mc_active_action_done(data)

SensitivityAnswered ==
    \E data \in SensitivityData :
        Answered("mc_action_sensitivity_done", <<data>>) /\ on_mc_action_sensitivity_done(data)

SaveAnswered == Answered("save_profile_done", <<>>) /\ on_save_profile_done

Subscribed == sentCount["sub_request"] > 0

SubscribedSample ==
    /\ Subscribed
    /\ UNCHANGED unsolicited
    /\ \E data \in SampleData \cup {NoData} :
          /\ data # NoData =>
                /\ Len(appended) < MaxLiveSamples
                /\ StreamShape(Append(appended, Lower(DataGetAction(data))))
          /\ on_new_com_data(data, clock)

NextLive ==
    \/ Start
    \/ SessionAnswered
    \/ CatalogAnswered
    \/ ProfileLoaded
    \/ ActiveActionsAnswered
    \/ SensitivityAnswered
    \/ SaveAnswered
    \/ SubscribedSample

\* every request that stays outstanding is eventually answered
EveryRequestAnswered ==
    /\ WF_vars(SessionAnswered)
    /\ WF_vars(CatalogAnswered)
    /\ WF_vars(ProfileLoaded)
    /\ WF_vars(ActiveActionsAnswered)
    /\ WF_vars(SensitivityAnswered)
    /\ WF_vars(SaveAnswered)

SpecLive == Init /\ [][NextLive]_vars /\ EveryRequestAnswered

----------------------------------------------------------------------------
(* The public operations called by a caller of LiveAdvance. *)

ApiNames == {"p1", "p2"}
ApiStreams == {<<"com">>, <<"sys">>}
ApiValues == {<<5, 5, 7, 7>>, <<7, 8, 3, 6>>, <<1, 10, 10, 1>>}

\* the calls of public operations made so far
CallsMade ==
    sentCount["load"] + sentCount["unload"] + sentCount["save"] + sentCount["sub_request"]
    + sentCount["get_mental_command_active_action"]
    + sentCount["get_mental_command_action_sensitivity"]
    + sentCount["set_mental_command_action_sensitivity"]

\* a caller calls the operation name(arg), which issues cmds and returns
Called(name, arg, cmds) ==
    /\ CallsMade < MaxCalls
    /\ UNCHANGED <<profile_name, profile_lists, opened, unsolicited>>
    /\ raised' = ""
    /\ Calls(name, arg, cmds)

LoadProfileCalled == \E name \in ApiNames : Called("load_profile", <<name>>, load_profile(name))

UnloadProfileCalled ==
    \E name \in ApiNames : Called("unload_profile", <<name>>, unload_profile(name))

SaveProfileCalled == \E name \in ApiNames : Called("save_profile", <<name>>, save_profile(name))

SubscribeDataCalled ==
    \E streams \in ApiStreams : Called("subscribe_data", <<streams>>, subscribe_data(streams))

GetActiveActionCalled ==
    \E name \in ApiNames : Called("get_active_action", <<name>>, get_active_action(name))

GetSensitivityCalled ==
    \E name \in ApiNames : Called("get_sensitivity", <<name>>, get_sensitivity(name))

SetSensitivityCalled ==
    \E name \in ApiNames, values \in ApiValues :
        Called("set_sensitivity", <<name, values>>, set_sensitivity(name, values))

NextApi ==
    \/ Start
    \/ LoadProfileCalled
    \/ UnloadProfileCalled
    \/ SaveProfileCalled
    \/ SubscribeDataCalled
    \/ GetActiveActionCalled
    \/ GetSensitivityCalled
    \/ SetSensitivityCalled

SpecApi == Init /\ [][NextApi]_vars

----------------------------------------------------------------------------
(* Properties of the pipeline, checked under SpecPipe. *)

TargetSet == {target_words[i] : i \in 1..Len(target_words)}

\* the last handler reached a qualifying decision
DecisionMade == event.name = "new_com_data" /\ effects # <<>>

\* the word of the decision of the last handler
DecisionWord == effects[1].data.line

\* the last handler tried to deliver to the socket and failed
SendFailed == DecisionMade /\ Len(effects) = 2 /\ ~effects[2].ok

\* C1: any two qualifying decisions are at least 8 time units apart, whether
\* the forwarder succeeds or fails.
C1_DecisionsEightApart ==
    [][(DecisionMade' /\ Len(effects') = 2 /\ decided # <<>> /\ decided[1].io # "log fails")
       => decided'[1].at - decided[1].at >= GateInterval]_vars

\* C2: when the forwarder fails at a qualifying decision, last_print_time is
\* still set to the reading of that decision, and the next decision comes no
\* sooner than 8 time units later.
C2_GateAdvancesOnSendFailure ==
    [][/\ SendFailed' => last_print_time' = clock'
       /\ (DecisionMade' /\ decided # <<>> /\ decided[1].io = "send fails")
             => decided'[1].at - decided[1].at >= GateInterval]_vars

\* the last n entries of s
LastN(s, n) == SubSeq(s, Len(s) - n + 1, Len(s))

Min(a, b) == IF a < b THEN a ELSE b

\* C3: the window never holds more than 40 labels, it holds exactly the most
\* recent min(n, 40) appended labels in arrival order, and a tally counts those
\* labels only, so the first of 41 appended labels is no longer counted.
C3_WindowIsLastForty ==
    LET n == Min(Len(appended), maxlen)
    IN  /\ Len(command_history) <= maxlen
        /\ command_history = LastN(appended, n)
        /\ \A w \in TargetSet :
              Counts(command_history)[w] =
                 Cardinality({i \in (Len(appended) - n + 1)..Len(appended) : appended[i] = w})

C3_Witness ==
    /\ Len(appended) = maxlen + 1
    /\ appended[1] = "left"
    /\ Counts(command_history)["left"] = 0
    /\ Len(command_history) = maxlen

\* C4: when the gate is open and no target word is counted 20 times in the
\* window, the handler emits no decision: no log append, no forward, no command,
\* last_print_time unchanged; only the window takes the new label.
C4_BelowThresholdNoDecision ==
    [][(/\ event'.name = "new_com_data"
        /\ appended' # appended
        /\ clock' - last_print_time >= GateInterval
        /\ \A w \in TargetSet : Count(command_history', w) < Threshold)
       => /\ effects' = <<>>
          /\ issued' = <<>>
          /\ raised' = ""
          /\ last_print_time' = last_print_time
          /\ decided' = decided
          /\ command_history' = LastN(appended', Min(Len(appended'), maxlen))
          /\ UNCHANGED <<profile_name, profile_lists, opened, sentCount, pending>>]_vars

C4_Witness ==
    /\ event.name = "new_com_data"
    /\ clock - last_print_time >= GateInterval
    /\ Count(command_history, "left") = Threshold - 1
    /\ \A w \in TargetSet : Count(command_history, w) < Threshold
    /\ Len(command_history) = maxlen
    /\ effects = <<>>

\* C5: the word of a decision has the maximum count among drop, right, left,
\* lift, neutral, and no word earlier in that order has the same count; with
\* 20 'left' and 20 'neutral' in the window the decision is 'left'.
C5_FirstMaxInVocabularyOrder ==
    DecisionMade =>
        \E i \in 1..Len(target_words) :
            /\ DecisionWord = target_words[i]
            /\ \A j \in 1..Len(target_words) :
                  Count(command_history, target_words[j]) <= Count(command_history, DecisionWord)
            /\ \A j \in 1..(i - 1) :
                  Count(command_history, target_words[j]) < Count(command_history, DecisionWord)

C5_Witness ==
    /\ DecisionMade
    /\ Count(command_history, "left") = Threshold
    /\ Count(command_history, "neutral") = Threshold
    /\ DecisionWord = "left"

----------------------------------------------------------------------------
(* Properties of the lifecycle, checked under Spec. *)

\* the step delivers a completion event that answers no outstanding request
OutOfTurnStep == event'.name \in Completions /\ unsolicited' # unsolicited

\* a load path and a create request have both been issued for the profile
LoadAndCreate ==
    /\ sentCount["get_current_profile"] > 0
    /\ sentCount["create"] > 0
    /\ profile_name # ""

\* at a catalog: the load path iff the name is among the names, else create
CatalogDecides ==
    event'.name = "query_profile_done"
       => issued' = IF InList(profile_name, event'.arg[1])
                    THEN <<Cmd("get_current_profile", "", <<>>)>>
                    ELSE <<Cmd("setup_profile", profile_name, <<"create">>)>>

\* C6 as claimed: each catalog issues exactly one of load and create by
\* membership of the name, and over the whole run a profile never gets both.
C6_Original == [][CatalogDecides /\ ~LoadAndCreate']_vars

\* C6 as amended: each catalog issues exactly one request, the load path iff the
\* name is among the names received with that catalog, else create.
C6_OneRequestPerCatalog == [][CatalogDecides]_vars

C6_Witness ==
    /\ event.name = "query_profile_done"
    /\ LoadAndCreate
    /\ issued = <<Cmd("get_current_profile", "", <<>>)>>

\* the completion that has to arrive before a command is issued
Predecessors ==
    [k \in Requests \cup {"sub_request"} |->
        CASE k = "query_profile"        -> {"open"}
          [] k = "get_current_profile"  -> {"query_profile"}
          [] k = "create"               -> {"query_profile"}
          [] k = "get_mental_command_active_action" -> {"get_current_profile", "create"}
          [] k = "get_mental_command_action_sensitivity" -> {"get_mental_command_active_action"}
          [] k = "set_mental_command_action_sensitivity" -> {"get_mental_command_action_sensitivity"}
          [] k = "save"                 -> {"set_mental_command_action_sensitivity"}
          [] k = "sub_request"          -> {"save"}
          [] OTHER                      -> {}]

\* every command issued so far came after the completion of its predecessor
InOrder ==
    \A k \in DOMAIN Predecessors :
        (sentCount[k] > 0 /\ Predecessors[k] # {}) => Predecessors[k] \cap acked # {}

\* C7 as claimed: in any order of delivery, an event no request is waiting for
\* issues no command, and every command comes after its predecessor's completion.
C7_Original == [][(OutOfTurnStep => issued' = <<>>) /\ InOrder']_vars

\* C7 as amended: as long as every completion event has answered an outstanding
\* request, every command was issued after its predecessor's completion.
C7_InOrderWhenInTurn == ~outOfTurn => InOrder

C7_Witness ==
    /\ ~outOfTurn
    /\ event.name = "save_profile_done"
    /\ issued = <<Cmd("sub_request", "", <<"com">>)>>
    /\ {"set_mental_command_action_sensitivity", "save"} \subseteq acked

AccessDenied(e) == e.name = "inform_error" /\ e.arg[1].code = ERR_PROFILE_ACCESS_DENIED

OtherError(e) == e.name = "inform_error" /\ e.arg[1].code # ERR_PROFILE_ACCESS_DENIED

\* an access-denied error issues exactly one disconnect and nothing else changes
DeniedDisconnects ==
    AccessDenied(event')
       => /\ issued' = <<Cmd("disconnect_headset", "", <<>>)>>
          /\ sentCount'["disconnect_headset"] = sentCount["disconnect_headset"] + 1
          /\ UNCHANGED <<profile_name, profile_lists, opened, command_history,
                         last_print_time>>

\* after a disconnect the completion events of the lifecycle issue nothing
ResetAfterDisconnect ==
    (sentCount["disconnect_headset"] > 0 /\ event'.name \in Completions) => issued' = <<>>

C10_OtherErrorChangesNothing ==
    [][OtherError(event')
       => /\ issued' = <<>>
          /\ UNCHANGED <<profile_name, profile_lists, opened, sentCount, pending, acked,
                         command_history, last_print_time, appended>>]_vars

C10_Witness ==
    /\ OtherError(event)
    /\ issued = <<>>
    /\ pending # {}
    /\ command_history # <<>>
    /\ profile_name = "p1"

\* the commands of kind k among cmds
OfKind(cmds, k) == {i \in 1..Len(cmds) : Kind(cmds[i]) = k}

\* C11: start with an empty profile name raises ValueError before any effect: no
\* field is recorded or changed and no command is issued; with a non-empty name
\* it records the name, sets the wanted profile, issues open exactly once, and
\* sets the wanted headset exactly when headsetId is non-empty.
C11_StartValidatesName ==
    [][event'.name = "start"
       => IF event'.arg[1] = ""
          THEN /\ raised' = "ValueError"
               /\ issued' = <<>>
               /\ UNCHANGED <<profile_name, profile_lists, opened, sentCount, pending,
                              acked, command_history, last_print_time>>
          ELSE /\ raised' = ""
               /\ profile_name' = event'.arg[1]
               /\ issued'[1] = Cmd("set_wanted_profile", event'.arg[1], <<>>)
               /\ Cardinality(OfKind(issued', "open")) = 1
               /\ sentCount'["open"] = sentCount["open"] + 1
               /\ issued'[Len(issued')] = Cmd("open", "", <<>>)
               /\ IF event'.arg[2] = ""
                  THEN OfKind(issued', "set_wanted_headset") = {}
                  ELSE /\ Len(issued') = 3
                       /\ issued'[2] = Cmd("set_wanted_headset", "", <<event'.arg[2]>>)]_vars

C11_Witness ==
    /\ event.name = "start"
    /\ event.arg[1] = ""
    /\ raised = "ValueError"
    /\ profile_name = Undefined
    /\ ~opened
    /\ sentCount["open"] = 0
    /\ issued = <<>>

SetKind == "set_mental_command_action_sensitivity"

GetKind == "get_mental_command_action_sensitivity"

\* at a sensitivity event: a list payload issues one set-sensitivity with the
\* configured vector, any other payload issues one save
ShapeDecides ==
    event'.name = "mc_action_sensitivity_done"
       => issued' = IF IsList(event'.arg[1])
                    THEN <<Cmd("set_mental_command_action_sensitivity", profile_name,
                               <<5, 5, 7, 7>>)>>
                    ELSE <<Cmd("setup_profile", profile_name, <<"save">>)>>

\* save was issued only after set-sensitivity, and set-sensitivity at most once
SaveAfterOneSet ==
    /\ sentCount["save"] > 0 => sentCount[SetKind] > 0
    /\ sentCount[SetKind] <= 1

\* C12 as claimed: a list payload while the read is outstanding issues one
\* set-sensitivity and no save; another payload issues save only while a
\* set-sensitivity is outstanding, so save never comes before set-sensitivity
\* and set-sensitivity is issued at most once.
C12_Original ==
    [][/\ event'.name = "mc_action_sensitivity_done"
          => IF IsList(event'.arg[1])
             THEN GetKind \in pending
                     => issued' = <<Cmd("set_mental_command_action_sensitivity", profile_name,
                                        <<5, 5, 7, 7>>)>>
             ELSE OfKind(issued', "save") # {} => SetKind \in pending
       /\ SaveAfterOneSet']_vars

\* C12 as amended: the payload's shape alone decides between one set-sensitivity
\* and one save; as long as every completion event has answered an outstanding
\* request, save comes after set-sensitivity and set-sensitivity is issued once.
C12_ShapeDecides == [][ShapeDecides /\ (~outOfTurn' => SaveAfterOneSet')]_vars

C12_Witness ==
    /\ ~outOfTurn
    /\ event.name = "mc_action_sensitivity_done"
    /\ ~IsList(event.arg[1])
    /\ issued = <<Cmd("setup_profile", profile_name, <<"save">>)>>
    /\ sentCount[SetKind] = 1
    /\ GetKind \in acked

\* C13: after start with a non-empty profile name, when every request is
\* eventually answered (the profile loaded, the sensitivity read answered by a
\* list and its write by an acknowledgement) and no error is reported, the
\* controller eventually subscribes to the 'com' stream, and exactly once,
\* whether the profile was in the catalog or had to be created.
C13_EventuallySubscribes ==
    /\ opened ~> (sentCount["sub_request"] = 1)
    /\ [](sentCount["sub_request"] <= 1)

C13_Witness ==
    /\ event.name = "save_profile_done"
    /\ issued = <<Cmd("sub_request", "", <<"com">>)>>
    /\ sentCount["sub_request"] = 1
    /\ sentCount["create"] = 1
    /\ sentCount["get_current_profile"] = 0

\* the commands that name a profile
ProfileScoped == {"create", "get_mental_command_active_action", GetKind, SetKind, "save"}

\* C20 as claimed: no handler ever issues a profile-scoped command with an empty
\* or undefined profile name, also not after an unload completion.
C20_Original ==
    \A i \in 1..Len(issued) :
        Kind(issued[i]) \in ProfileScoped => issued[i].profile \notin {"", Undefined}

\* C20 as amended: a profile-scoped command carries self.profile_name as the
\* handler finds it; as long as every completion event has answered an
\* outstanding request that is the non-empty name given to start.
C20_NameWhenInTurn ==
    [][\A i \in 1..Len(issued') :
          Kind(issued'[i]) \in ProfileScoped
             => /\ issued'[i].profile = profile_name
                /\ ~outOfTurn' => issued'[i].profile \in ProfileNames \ {""}]_vars

C20_Witness ==
    /\ ~outOfTurn
    /\ event.name = "get_mc_active_action_done"
    /\ issued = <<Cmd("get_mental_command_action_sensitivity", "p1", <<>>)>>
    /\ profile_name = "p1"
    /\ sentCount["create"] = 1

----------------------------------------------------------------------------
(* Properties of the file append and the socket delivery, under SpecPipe. *)

\* the file append of the last handler's decision failed
LogFailed == DecisionMade /\ ~effects[1].ok

\* the last handler called envioporsocket
Forwarded == DecisionMade /\ Len(effects) = 2

\* C14: a failure of the file append at a qualifying decision is not fatal: the
\* handler ends without an exception, the label is still forwarded to the
\* socket, last_print_time is set to the reading of the decision, and the
\* window holds what it would hold without the failure.
C14_LogFailureNotFatal ==
    LogFailed =>
        /\ raised = ""
        /\ Forwarded
        /\ effects[2].op = "send"
        /\ effects[2].data = Encode(DecisionWord)
        /\ last_print_time = clock
        /\ command_history = LastN(appended, Min(Len(appended), maxlen))

\* the connections open after the first n calls on the socket
OpenAfter(calls, n) ==
    Cardinality({i \in 1..n : calls[i].call = "socket" /\ calls[i].ok})
       - Cardinality({i \in 1..n : calls[i].call = "close"})

\* C15: every delivery opens one new connection and closes it on every exit
\* path: after envioporsocket returns or fails at connect or at sendall no
\* connection is left open, and at most one connection is ever open.
C15_SocketClosedOnEveryPath ==
    Forwarded =>
        LET calls == effects[2].calls
        IN  /\ calls[1] = [call |-> "socket", ok |-> TRUE]
            /\ Cardinality({i \in 1..Len(calls) : calls[i].call = "socket"}) = 1
            /\ calls[2].call = "connect"
            /\ calls[Len(calls)].call = "close"
            /\ \A n \in 1..Len(calls) : OpenAfter(calls, n) \in {0, 1}
            /\ OpenAfter(calls, Len(calls)) = 0
            /\ effects[2].ok <=> \A i \in 1..Len(calls) : calls[i].ok

C15_Witness ==
    /\ Forwarded
    /\ raised = "OSError"
    /\ effects[2].calls = <<[call |-> "socket", ok |-> TRUE],
                            [call |-> "connect", ok |-> FALSE],
                            [call |-> "close", ok |-> TRUE]>>

\* C17: every qualifying decision produces exactly one file append and exactly
\* one delivery attempt carrying the same label, the append before the attempt,
\* and last_print_time is set after both; no delivery is attempted without the
\* append of that decision before it.
C17_OneLogThenOneForward ==
    DecisionMade =>
        /\ Len(effects) = 2
        /\ effects[1].op = "log"
        /\ effects[2].op = "send"
        /\ effects[2].data = Encode(effects[1].data.line)
        /\ last_print_time = clock

\* the labels of the stream in lower case
NormalisedLabels == {"left", "neutral", "push"}

C19_NoDecisionBeforeTwenty ==
    /\ Len(appended) < Threshold
          => /\ effects = <<>>
             /\ decided = <<>>
             /\ last_print_time = 0
             /\ GateOpen(clock, last_print_time)
    /\ DecisionMade
          => /\ Len(appended) >= Threshold
             /\ Len(command_history) >= Threshold
             /\ command_history = LastN(appended, Min(Len(appended), maxlen))

C19_Witness ==
    /\ DecisionMade
    /\ Len(appended) = Threshold + 1
    /\ Count(command_history, "left") = Threshold + 1
    /\ decided[1] = [at |-> MinClock + GateInterval, io |-> "ok"]
    /\ last_print_time = MinClock + GateInterval

----------------------------------------------------------------------------
(* Properties of the public operations, checked under SpecApi. *)

\* C16: set_sensitivity called with 4 values, each in 1..10, issues exactly one
\* set-sensitivity command carrying the same profile name and the same values in
\* the same order, and changes no state of the controller or of the pipeline.
C16_SetSensitivityPassesThrough ==
    [][(/\ event'.name = "set_sensitivity"
        /\ Len(event'.arg[2]) = 4
        /\ \A i \in 1..4 : event'.arg[2][i] \in 1..10)
       => /\ issued' = <<Cmd("set_mental_command_action_sensitivity",
                             event'.arg[1], event'.arg[2])>>
          /\ \A k \in Kinds :
                sentCount'[k] = sentCount[k] + (IF k = SetKind THEN 1 ELSE 0)
          /\ raised' = ""
          /\ UNCHANGED <<profile_name, profile_lists, opened, command_history,
                         last_print_time, appended, decided>>]_vars

C16_Witness ==
    /\ event.name = "set_sensitivity"
    /\ event.arg = <<"p2", <<1, 10, 10, 1>>>>
    /\ issued = <<Cmd("set_mental_command_action_sensitivity", "p2", <<1, 10, 10, 1>>)>>
    /\ profile_name = "p1"
    /\ sentCount[SetKind] = 2

====
